---- MODULE Spec2Model ----
(***************************************************************************)
(* Position lifecycle engine of the Hyperliquid signal vault:              *)
(*   - SignalRepository      (src/db_operations.py)                        *)
(*   - PositionManager       (src/position_manager.py)                     *)
(*   - PositionMonitor       (src/monitoring.py)                           *)
(*   - HyperliquidTrader     (src/trader.py), sizing and the exchange      *)
(*                                                                         *)
(* Conventions.  Prices are integers in tenths of a dollar; 0 stands for   *)
(* "no price" (None, which `if not current_price` treats like 0.0).        *)
(* Sizes are in lots (one lot = the asset's minimum order size             *)
(* 10^-szDecimals); a size that is not a whole number of lots is the       *)
(* rational [num, den].  Signal ids are the positions in the store, which  *)
(* is the order of created_at.                                             *)
(***************************************************************************)
EXTENDS Integers, Sequences, FiniteSets, TLC

VARIABLES
    signals,    \* the 'signals' collection: sequence of signal records
    pos,        \* exchange: asset -> position entry [has, szi]
    trailing,   \* PositionMonitor._trailing_states: id -> state
    expired,    \* TRUE once datetime.now() >= max_exit_time of the signals
    monq,       \* monitoring loop: open signals of this cycle still to process
    pendq,      \* process_pending_signals: pending signals still to process
    ev,         \* what the last step did (calls made, writes, orders placed)
    hist,       \* monitor ticks of the single-signal scenario
    calc,       \* one call of calculate_position_size: inputs and result
    retry,      \* one call of _retry_with_backoff: inputs and result
    loop,       \* monitoring_active and the _monitoring_loop thread
    closers,    \* close requests in progress, step by step
    sent,       \* one closing order as it reaches the exchange
    monitor     \* a PositionMonitor, its threads and the calls made on it

\* the variables of the thread-level and single-call scenarios
aux == <<loop, closers, sent, monitor>>

vars == <<signals, pos, trailing, expired, monq, pendq, ev, hist, calc, retry, aux>>

----------------------------------------------------------------------------
(* Bounds of the model *)

\* how many signals are ever created
NumSignals == 2
\* how many monitor cycles the single-signal scenario runs
MaxTicks == 5
\* the largest exchange position, in lots, the engine runs build up (fills
\* whose store write failed are repeated without end)
MaxLots == 4
\* the largest max_retries a PositionManager is configured with
MaxRetriesCfg == 4
\* calls of start_monitoring and stop_monitoring in a run
MaxCalls == 3
\* close requests that may be in progress for one signal at a time
MaxClosers == 2

(* Program constants *)

\* PositionManager.__init__: max_retries
MaxRetries == 3
\* PositionManager.__init__: retry_delay (seconds)
RetryDelay == 1
\* PositionMonitor.__init__: TRAIL_PERCENT default 0.02, in percent
TrailPercent == 2
\* _process_pending_signal: VAULT_RISK_PERCENTAGE default
RiskPercentage == 10
\* _process_pending_signal: fixed leverage
Leverage == 2
\* calculate_position_size: fallback margin in dollars
FallbackMargin == 100

Abs(x) == IF x < 0 THEN -x ELSE x

RECURSIVE Pow(_, _)
Pow(b, e) == IF e = 0 THEN 1 ELSE b * Pow(b, e - 1)

----------------------------------------------------------------------------
(* Exchange responses to an order, as PositionManager reads them *)

RespFilled  == [status |-> "ok", type |-> "order", statuses |-> <<"filled">>]
RespError   == [status |-> "ok", type |-> "order", statuses |-> <<"error">>]
RespResting == [status |-> "ok", type |-> "order", statuses |-> <<"resting">>]
RespEmpty   == [status |-> "ok", type |-> "order", statuses |-> <<>>]
RespOther   == [status |-> "ok", type |-> "cancel", statuses |-> <<"filled">>]
RespErr     == [status |-> "err", type |-> "order", statuses |-> <<"filled">>]
\* the operation raised instead of returning
RespRaise   == [status |-> "raise", type |-> "", statuses |-> <<>>]
\* the operation returned None: `not order_result`
RespNone    == [status |-> "none", type |-> "", statuses |-> <<>>]

Responses == {RespFilled, RespError, RespResting, RespEmpty, RespOther, RespErr, RespRaise,
              RespNone}

IsOrderSuccessfulAccepted(r) ==
    /\ r.status = "ok"
    /\ r.type = "order"
    /\ Len(r.statuses) > 0
    /\ r.statuses[1] # "error"

\* PositionManager._is_order_successful
IsOrderSuccessful(r) ==
    /\ r.status = "ok"
    /\ r.type = "order"
    /\ Len(r.statuses) > 0
    /\ r.statuses[1] = "filled"

\* _retry_with_backoff: delay = self.retry_delay * (2 ** attempt)
BackoffDelay(delay, attempt) == delay * Pow(2, attempt)

SleepsAfterLast(attempt, maxr) == TRUE

\* _retry_with_backoff: if attempt < self.max_retries - 1
SleepsAfter(attempt, maxr) == attempt < maxr - 1

\* _retry_with_backoff, from loop index `attempt` on.  outs[i] is what the
\* i-th call of operation_func does.  acc = [n: calls made, delays: sleeps]
RECURSIVE RetryFrom(_, _, _, _, _)
RetryFrom(outs, attempt, maxr, delay, acc) ==
    IF attempt >= maxr
    THEN [ok |-> FALSE, n |-> acc.n, delays |-> acc.delays]
    ELSE LET r == outs[attempt + 1]
             n1 == acc.n + 1
         IN  IF r.status # "raise" /\ IsOrderSuccessful(r)
             THEN [ok |-> TRUE, n |-> n1, delays |-> acc.delays]
             ELSE RetryFrom(outs, attempt + 1, maxr, delay,
                      [n |-> n1,
                       delays |-> IF SleepsAfter(attempt, maxr)
                                  THEN Append(acc.delays, BackoffDelay(delay, attempt))
                                  ELSE acc.delays])

\* PositionManager._retry_with_backoff
RetryWithBackoff(outs, maxr, delay) ==
    RetryFrom(outs, 0, maxr, delay, [n |-> 0, delays |-> <<>>])

----------------------------------------------------------------------------
(* Sizing: HyperliquidTrader *)

\* a specification of an asset: known to get_asset_specs or not, and its
\* szDecimals
AssetSpecs == {[known |-> TRUE, szd |-> 0], [known |-> TRUE, szd |-> 1],
               [known |-> TRUE, szd |-> 3], [known |-> FALSE, szd |-> 4]}

\* get_min_order_size: 10 ** (-sz_decimals), 0.0001 for an unknown asset;
\* here the number of minimum sizes (lots) in one unit of the asset
LotsPerUnit(spec) == IF spec.known THEN Pow(10, spec.szd) ELSE 10000

Rat(n, d) == [num |-> n, den |-> d]
RatLess(a, b) == a.num * b.den < b.num * a.den
OneLot == Rat(1, 1)

\* Decimal.quantize(precision), ROUND_HALF_EVEN, to whole lots
Quantize(x) ==
    LET q == x.num \div x.den
        r == x.num % x.den
    IN  IF 2 * r < x.den THEN q
        ELSE IF 2 * r > x.den THEN q + 1
        ELSE IF q % 2 = 0 THEN q ELSE q + 1

\* HyperliquidTrader.validate_and_adjust_size
ValidateAndAdjustSize(spec, size) ==
    LET s1 == IF RatLess(size, OneLot) THEN Rat(101, 100) ELSE size
    IN  IF spec.known THEN Rat(Quantize(s1), 1) ELSE s1

\* HyperliquidTrader.calculate_position_size.  vault = [ok, total]: the
\* answer of get_vault_balance (total in dollars); price in tenths of a
\* dollar, 0 for None or zero.  Returns the size in lots and the branch.
CalculatePositionSize(spec, vault, price, percentage, leverage) ==
    LET L == LotsPerUnit(spec)
    IN  IF price = 0
        THEN \* the division raises; except-branch: fallback_size = min_size
             [size |-> OneLot, branch |-> "except"]
        ELSE IF ~vault.ok
        THEN \* fallback_size = (fallback_margin * leverage) / current_price
             [size |-> Rat(FallbackMargin * leverage * 10 * L, price),
              branch |-> "nobalance"]
        ELSE LET naive == Rat(vault.total * percentage * leverage * L, 10 * price)
                 \* position_size_usd < min_position_usd
                 bumped == IF RatLess(naive, OneLot) THEN Rat(11, 10) ELSE naive
             IN  [size |-> ValidateAndAdjustSize(spec, bumped),
                  branch |-> IF RatLess(naive, OneLot) THEN "bumped" ELSE "naive"]

----------------------------------------------------------------------------
(* Data: models.py *)

Assets == {"A"}

\* PositionStatus
FALSE_ == "false"
OPEN == "open"
CLOSE == "close"

\* PositionDetails; entry/exit 0 = None, oid "" = None; usd is
\* position_size_usd (lots x tenths of a dollar).  entry_timestamp is set
\* with entry and exit_timestamp with exit.
NoDetails == [has |-> FALSE, oid |-> "", entry |-> 0, size |-> 0, usd |-> 0, leverage |-> 0,
              exit |-> 0]

\* SignalData of the signals the model creates: the levels of the worked
\* example (tp1=110, tp2=130, sl=90) and their mirror image for a sell
SignalDataOf(dir) ==
    IF dir = "buy"
    THEN [signal_message |-> "buy", tp1 |-> 1100, tp2 |-> 1300, sl |-> 900]
    ELSE [signal_message |-> "sell", tp1 |-> 900, tp2 |-> 700, sl |-> 1100]

\* the asset specification the exchange reports for the traded assets
AssetSpecOf(sym) == [known |-> TRUE, szd |-> 0]

IsBuy(sig) == sig.signal_data.signal_message = "buy"

\* a buy whose levels are not consistent (sl above tp2): the core does not
\* check the levels
CrossedData == [signal_message |-> "buy", tp1 |-> 1000, tp2 |-> 1100, sl |-> 1200]

\* SignalRepository.create_signal: the record inserted
NewSignalWith(data, asset) ==
    [position_status |-> FALSE_, signal_data |-> data,
     asset |-> asset, position_details |-> NoDetails]

NewSignal(dir, asset) == NewSignalWith(SignalDataOf(dir), asset)

Ids(sigs) == 1..Len(sigs)

RECURSIVE SeqOfSet(_)
\* ascending sequence of a set of ids: sort('created_at', ASCENDING)
SeqOfSet(S) ==
    IF S = {} THEN <<>>
    ELSE LET m == CHOOSE x \in S : \A y \in S : x <= y
         IN  <<m>> \o SeqOfSet(S \ {m})

\* SignalRepository.get_open_positions
GetOpenPositions(sigs) ==
    SeqOfSet({i \in Ids(sigs) : sigs[i].position_status = OPEN})

RECURSIVE Reverse(_)
Reverse(s) == IF s = <<>> THEN <<>> ELSE Reverse(Tail(s)) \o <<Head(s)>>

GetPendingSignalsNewestFirst(sigs) ==
    Reverse(SeqOfSet({i \in Ids(sigs) : sigs[i].position_status = FALSE_}))

\* SignalRepository.get_pending_signals
GetPendingSignals(sigs) ==
    SeqOfSet({i \in Ids(sigs) : sigs[i].position_status = FALSE_})

\* SignalRepository.get_signals_by_asset(asset, status): newest first; the
\* empty list when the query raises (dbok = FALSE)
GetSignalsByAsset(sigs, asset, status, dbok) ==
    IF ~dbok THEN <<>>
    ELSE Reverse(SeqOfSet({i \in Ids(sigs) :
             sigs[i].asset = asset /\ sigs[i].position_status = status}))

----------------------------------------------------------------------------
(* The world a handler acts on: w = [signals, pos, writes, placed].        *)
(* writes lists the status writes the handler made, in order;  placed      *)
(* counts its calls of exchange.order.                                     *)

World(sigs, p) == [signals |-> sigs, pos |-> p, writes |-> <<>>, placed |-> 0]

UpdatePositionStatusByAsset(w, id, status, det, dbok) ==
    IF ~dbok \/ id \notin Ids(w.signals)
    THEN [w |-> w, ret |-> FALSE]
    ELSE [w |-> [w EXCEPT
                   !.signals = [i \in Ids(w.signals) |->
                                  IF w.signals[i].asset = w.signals[id].asset
                                  THEN [w.signals[i] EXCEPT
                                          !.position_status = status,
                                          !.position_details =
                                              IF det.has THEN det ELSE @]
                                  ELSE w.signals[i]],
                   !.writes = Append(@, [id |-> id,
                                         from |-> w.signals[id].position_status,
                                         to |-> status])],
          ret |-> TRUE]

\* SignalRepository.update_position_status.  det.has = FALSE: no details
\* given.  dbok = FALSE: update_one raises or modifies nothing.
UpdatePositionStatus(w, id, status, det, dbok) ==
    IF ~dbok \/ id \notin Ids(w.signals)
    THEN [w |-> w, ret |-> FALSE]
    ELSE [w |-> [w EXCEPT
                   !.signals[id].position_status = status,
                   !.signals[id].position_details = IF det.has THEN det ELSE @,
                   !.writes = Append(@, [id |-> id,
                                         from |-> w.signals[id].position_status,
                                         to |-> status])],
          ret |-> TRUE]

RepoClosePositionNoExit(w, id, exit_price, dbok) ==
    IF ~dbok \/ id \notin Ids(w.signals) \/ ~w.signals[id].position_details.has
    THEN [w |-> w, ret |-> FALSE]
    ELSE UpdatePositionStatus(w, id, CLOSE, w.signals[id].position_details, dbok)

\* SignalRepository.close_position: read the details, add the exit fields,
\* write status close with them
RepoClosePosition(w, id, exit_price, dbok) ==
    IF ~dbok \/ id \notin Ids(w.signals) \/ ~w.signals[id].position_details.has
    THEN [w |-> w, ret |-> FALSE]
    ELSE UpdatePositionStatus(w, id, CLOSE,
             [w.signals[id].position_details EXCEPT !.exit = exit_price], dbok)

----------------------------------------------------------------------------
(* The exchange *)

NoPosition == [has |-> FALSE, szi |-> 0]

\* the entry user_state shows for an asset whose size became szi: a flat
\* position is dropped from assetPositions or stays as an entry of size 0
EntryFor(szi, keepsZero) ==
    IF szi = 0 /\ ~keepsZero THEN NoPosition ELSE [has |-> TRUE, szi |-> szi]

\* exchange.order filled: the position moves by the signed size
Fill(w, sym, is_buy, lots, keepsZero) ==
    [w EXCEPT !.pos[sym] =
        EntryFor(@.szi + (IF is_buy THEN lots ELSE -lots), keepsZero)]

\* HyperliquidTrader.place_order: the size sent is validate_and_adjust_size
OrderLots(sym, size) == ValidateAndAdjustSize(AssetSpecOf(sym), size)

\* statuses[0]['filled'] of an order of `lots` answered at price avgPx
NoFill == [oid |-> 0, avgPx |-> 0, totalSz |-> 0]
FilledData(oid, avgPx, lots) == [oid |-> oid, avgPx |-> avgPx, totalSz |-> lots]

----------------------------------------------------------------------------
(* PositionManager.  inp carries what the outside answers during the call: *)
(*   price2: get_current_price inside close_position                       *)
(*   couts, oouts: the answers to the closing / opening order attempts     *)
(*   dbc, dbo: whether the store write of close / open succeeds            *)
(*   dbr, dbr2: whether the get_signals_by_asset query of the conflict     *)
(*         check / of _process_pending_signal succeeds                     *)
(*   keepsZero: how the exchange shows a flat position                     *)
(*   oid, slip: the order id of a fill, and how far its average price is   *)
(*         from the price the caller read                                  *)

NoCall == [called |-> FALSE, id |-> 0, seen |-> "", ret |-> FALSE, n |-> 0]

Seen(p) == IF ~p.has THEN "none" ELSE IF p.szi = 0 THEN "zero" ELSE "live"

\* PositionManager.close_position
ClosePosition(w, id, symbol, inp) ==
    LET position == w.pos[symbol]
    IN  IF ~position.has
        THEN [w |-> w, ret |-> FALSE, seen |-> "none", n |-> 0]
        ELSE IF position.szi = 0
        THEN LET u == UpdatePositionStatus(w, id, CLOSE, NoDetails, inp.dbc)
             IN  [w |-> u.w, ret |-> TRUE, seen |-> "zero", n |-> 0]
        ELSE IF inp.price2 = 0
        THEN [w |-> w, ret |-> FALSE, seen |-> "live", n |-> 0]
        ELSE LET is_buy == position.szi < 0
                 close_size == OrderLots(symbol, Rat(Abs(position.szi), 1))
                 r == RetryWithBackoff(inp.couts, MaxRetries, RetryDelay)
                 w1 == [w EXCEPT !.placed = @ + r.n]
             IN  IF ~r.ok
                 THEN [w |-> w1, ret |-> FALSE, seen |-> "live", n |-> r.n]
                 ELSE LET w2 == Fill(w1, symbol, is_buy, close_size.num, inp.keepsZero)
                          filled_data == FilledData(inp.oid, inp.price2 + inp.slip,
                                                    close_size.num)
                          c == RepoClosePosition(w2, id, filled_data.avgPx, inp.dbc)
                      IN  [w |-> c.w, ret |-> c.ret, seen |-> "live", n |-> r.n]

OpenPositionUnfilled(w, id, symbol, is_buy, size, price, leverage, inp) ==
    LET r == RetryWithBackoff(inp.oouts, MaxRetries, RetryDelay)
        w1 == [w EXCEPT !.placed = @ + r.n]
        lots == OrderLots(symbol, size).num
        w2 == IF r.ok THEN Fill(w1, symbol, is_buy, lots, inp.keepsZero) ELSE w1
        fd == FilledData(inp.oid, price + inp.slip, lots)
        det == [NoDetails EXCEPT !.has = TRUE, !.oid = ToString(fd.oid),
                                 !.entry = fd.avgPx, !.size = fd.totalSz,
                                 !.usd = fd.totalSz * fd.avgPx, !.leverage = leverage]
        u == UpdatePositionStatus(w2, id, OPEN, det, inp.dbo)
    IN  [w |-> u.w, ret |-> r.ok /\ u.ret, n |-> r.n, filled |-> r.ok,
         fill |-> IF r.ok THEN fd ELSE NoFill]

OpenPositionAsRequested(w, id, symbol, is_buy, size, price, leverage, inp) ==
    LET r == RetryWithBackoff(inp.oouts, MaxRetries, RetryDelay)
        w1 == [w EXCEPT !.placed = @ + r.n]
        lots == OrderLots(symbol, size).num
        fd == FilledData(inp.oid, price + inp.slip, lots)
    IN  IF ~r.ok
        THEN [w |-> w1, ret |-> FALSE, n |-> r.n, filled |-> FALSE, fill |-> NoFill]
        ELSE LET w2 == Fill(w1, symbol, is_buy, lots, inp.keepsZero)
                 det == [NoDetails EXCEPT !.has = TRUE, !.oid = ToString(fd.oid),
                                          !.entry = price, !.size = fd.totalSz,
                                          !.usd = fd.totalSz * price,
                                          !.leverage = leverage]
                 u == UpdatePositionStatus(w2, id, OPEN, det, inp.dbo)
             IN  [w |-> u.w, ret |-> u.ret, n |-> r.n, filled |-> TRUE, fill |-> fd]

OpenPositionStatusOnly(w, id, symbol, is_buy, size, price, leverage, inp) ==
    LET r == RetryWithBackoff(inp.oouts, MaxRetries, RetryDelay)
        w1 == [w EXCEPT !.placed = @ + r.n]
        lots == OrderLots(symbol, size).num
    IN  IF ~r.ok
        THEN [w |-> w1, ret |-> FALSE, n |-> r.n, filled |-> FALSE, fill |-> NoFill]
        ELSE LET w2 == Fill(w1, symbol, is_buy, lots, inp.keepsZero)
                 u == UpdatePositionStatus(w2, id, OPEN, NoDetails, inp.dbo)
             IN  [w |-> u.w, ret |-> u.ret, n |-> r.n, filled |-> TRUE,
                  fill |-> FilledData(inp.oid, price + inp.slip, lots)]

\* PositionManager.open_position; size is what calculate_position_size gave.
\* filled, fill: whether an attempt was filled, and the fill data
OpenPosition(w, id, symbol, is_buy, size, price, leverage, inp) ==
    LET r == RetryWithBackoff(inp.oouts, MaxRetries, RetryDelay)
        w1 == [w EXCEPT !.placed = @ + r.n]
        lots == OrderLots(symbol, size).num
    IN  IF ~r.ok
        THEN [w |-> w1, ret |-> FALSE, n |-> r.n, filled |-> FALSE, fill |-> NoFill]
        ELSE LET w2 == Fill(w1, symbol, is_buy, lots, inp.keepsZero)
                 filled_data == FilledData(inp.oid, price + inp.slip, lots)
                 det == [NoDetails EXCEPT
                           !.has = TRUE,
                           !.oid = ToString(filled_data.oid),
                           !.entry = filled_data.avgPx,
                           !.size = filled_data.totalSz,
                           !.usd = filled_data.totalSz * filled_data.avgPx,
                           !.leverage = leverage]
                 u == UpdatePositionStatus(w2, id, OPEN, det, inp.dbo)
             IN  [w |-> u.w, ret |-> u.ret, n |-> r.n, filled |-> TRUE,
                  fill |-> filled_data]

\* PositionManager.check_existing_position_conflict
CheckExistingPositionConflict(w, symbol, is_buy, inp) ==
    LET open_signals == GetSignalsByAsset(w.signals, symbol, OPEN, inp.dbr)
    IN  IF open_signals = <<>> THEN "none"
        ELSE IF is_buy = IsBuy(w.signals[open_signals[1]])
        THEN "reject"
        ELSE "close_and_reverse"

----------------------------------------------------------------------------
(* PositionMonitor: exit evaluation *)

\* _trailing_states entry; peak/low 0 = None
NoState == [has |-> FALSE, tp1_hit |-> FALSE, peak |-> 0, low |-> 0]
FreshState == [has |-> TRUE, tp1_hit |-> FALSE, peak |-> 0, low |-> 0]

\* current_price <= sl (buy), current_price >= sl (sell)
StopLossHit(d, p) ==
    IF d.signal_message = "buy" THEN p <= d.sl ELSE p >= d.sl

\* current_price >= tp2 (buy), current_price <= tp2 (sell)
Tp2Hit(d, p) ==
    IF d.signal_message = "buy" THEN p >= d.tp2 ELSE p <= d.tp2

\* current_price >= tp1 (buy), current_price <= tp1 (sell)
Tp1Reached(d, p) ==
    IF d.signal_message = "buy" THEN p >= d.tp1 ELSE p <= d.tp1

\* buy:  current_price <= peak * (1.0 - trail_percent)
\* sell: current_price >= low * (1.0 + trail_percent)
TrailStopHit(d, p, ref) ==
    IF d.signal_message = "buy"
    THEN p * 100 <= ref * (100 - TrailPercent)
    ELSE p * 100 >= ref * (100 + TrailPercent)

TrailingStepStalePeak(d, st, p) ==
    IF ~st.tp1_hit
    THEN IF Tp1Reached(d, p)
         THEN [close |-> FALSE, reason |-> "",
               st |-> IF d.signal_message = "buy"
                      THEN [st EXCEPT !.tp1_hit = TRUE, !.peak = p]
                      ELSE [st EXCEPT !.tp1_hit = TRUE, !.low = p]]
         ELSE [close |-> FALSE, reason |-> "", st |-> st]
    ELSE LET ref == IF d.signal_message = "buy" THEN st.peak ELSE st.low
             hit == TrailStopHit(d, p, ref)
         IN  [close |-> hit, reason |-> IF hit THEN "TRAIL" ELSE "", st |-> st]

TrailingStepDisarms(d, st, p) ==
    IF ~Tp1Reached(d, p)
    THEN [close |-> FALSE, reason |-> "", st |-> [st EXCEPT !.tp1_hit = FALSE]]
    ELSE IF ~st.tp1_hit
    THEN [close |-> FALSE, reason |-> "",
          st |-> IF d.signal_message = "buy"
                 THEN [st EXCEPT !.tp1_hit = TRUE, !.peak = p]
                 ELSE [st EXCEPT !.tp1_hit = TRUE, !.low = p]]
    ELSE LET ref == IF d.signal_message = "buy"
                    THEN (IF p > st.peak THEN p ELSE st.peak)
                    ELSE (IF p < st.low THEN p ELSE st.low)
             hit == TrailStopHit(d, p, ref)
         IN  [close |-> hit, reason |-> IF hit THEN "TRAIL" ELSE "",
              st |-> IF d.signal_message = "buy" THEN [st EXCEPT !.peak = ref]
                     ELSE [st EXCEPT !.low = ref]]

\* the else-branch of the price checks: arm on tp1, or move the peak / low
\* and test the trailing stop
TrailingStep(d, st, p) ==
    IF ~st.tp1_hit
    THEN IF Tp1Reached(d, p)
         THEN [close |-> FALSE, reason |-> "",
               st |-> IF d.signal_message = "buy"
                      THEN [st EXCEPT !.tp1_hit = TRUE, !.peak = p]
                      ELSE [st EXCEPT !.tp1_hit = TRUE, !.low = p]]
         ELSE [close |-> FALSE, reason |-> "", st |-> st]
    ELSE IF d.signal_message = "buy"
    THEN LET peak == IF st.peak = 0 \/ p > st.peak THEN p ELSE st.peak
             hit == TrailStopHit(d, p, peak)
         IN  [close |-> hit, reason |-> IF hit THEN "TRAIL" ELSE "",
              st |-> [st EXCEPT !.peak = peak]]
    ELSE LET low == IF st.low = 0 \/ p < st.low THEN p ELSE st.low
             hit == TrailStopHit(d, p, low)
         IN  [close |-> hit, reason |-> IF hit THEN "TRAIL" ELSE "",
              st |-> [st EXCEPT !.low = low]]

PriceDecisionTrailFirst(d, st, p) ==
    LET t == TrailingStep(d, st, p)
    IN  IF StopLossHit(d, p) THEN [close |-> TRUE, reason |-> "SL", st |-> st]
        ELSE IF t.close \/ t.st # st THEN t
        ELSE IF Tp2Hit(d, p) THEN [close |-> TRUE, reason |-> "TP2", st |-> st]
        ELSE t

\* _process_position: "Check price-based exit conditions"
PriceDecision(d, st, p) ==
    IF StopLossHit(d, p) THEN [close |-> TRUE, reason |-> "SL", st |-> st]
    ELSE IF Tp2Hit(d, p) THEN [close |-> TRUE, reason |-> "TP2", st |-> st]
    ELSE TrailingStep(d, st, p)

TimeCheckKeepsReason(dec, isExpired) == dec

\* _process_position: "Check time-based exit condition"
TimeCheck(dec, isExpired) ==
    IF isExpired THEN [dec EXCEPT !.close = TRUE, !.reason = "TIME"] ELSE dec

TrailingAfterCloseCleared(tr, id, success) == [tr EXCEPT ![id] = NoState]

\* _process_position: if success: self._trailing_states.pop(sig_id, None)
TrailingAfterClose(tr, id, success) ==
    IF success THEN [tr EXCEPT ![id] = NoState] ELSE tr

NoMon == [price |-> 0, seen |-> "", decided |-> FALSE, priceReason |-> "",
          reason |-> "", should_close |-> FALSE, before |-> NoState,
          after |-> NoState, expired |-> FALSE, repo_ret |-> FALSE]

\* PositionMonitor._process_position(signal) of signal id.  tr: the
\* _trailing_states map.  inp.price: get_current_price at the start.
ProcessPosition(w, tr, id, isExpired, inp) ==
    LET signal == w.signals[id]
        symbol == signal.asset
        position == w.pos[symbol]
        base == [NoMon EXCEPT !.price = inp.price, !.expired = isExpired,
                              !.before = tr[id], !.after = tr[id]]
    IN  IF inp.price = 0
        THEN [w |-> w, tr |-> tr, close |-> NoCall, mon |-> base]
        ELSE IF ~position.has \/ position.szi = 0
        THEN LET c == RepoClosePosition(w, id, inp.price, inp.dbc)
             IN  [w |-> c.w, tr |-> tr, close |-> NoCall,
                  mon |-> [base EXCEPT !.seen = Seen(position), !.repo_ret = c.ret]]
        ELSE LET state == IF tr[id].has THEN tr[id] ELSE FreshState
                 pd == PriceDecision(signal.signal_data, state, inp.price)
                 dec == TimeCheck(pd, isExpired)
                 tr1 == [tr EXCEPT ![id] = dec.st]
                 m == [base EXCEPT !.seen = "live", !.decided = TRUE,
                                   !.priceReason = pd.reason, !.reason = dec.reason,
                                   !.should_close = dec.close, !.after = dec.st]
             IN  IF ~dec.close
                 THEN [w |-> w, tr |-> tr1, close |-> NoCall, mon |-> m]
                 ELSE LET c == ClosePosition(w, id, symbol, inp)
                          call == [called |-> TRUE, id |-> id, seen |-> c.seen,
                                   ret |-> c.ret, n |-> c.n]
                          tr2 == TrailingAfterClose(tr1, id, c.ret)
                      IN  [w |-> c.w, tr |-> tr2, close |-> call,
                           mon |-> [m EXCEPT !.after = tr2[id]]]

----------------------------------------------------------------------------
(* PositionMonitor: pending-signal promotion *)

NoOpen == [called |-> FALSE, ret |-> FALSE, n |-> 0, filled |-> FALSE, fill |-> NoFill]

\* PositionMonitor._process_pending_signal(signal) of signal id.
\* inp.price: get_current_price; inp.vault: get_vault_balance
ProcessPendingSignal(w, id, inp) ==
    LET signal == w.signals[id]
        symbol == signal.asset
        is_buy == IsBuy(signal)
        conflict_action == CheckExistingPositionConflict(w, symbol, is_buy, inp)
        existing_signals == GetSignalsByAsset(w.signals, symbol, OPEN, inp.dbr2)
        closes == conflict_action = "close_and_reverse" /\ existing_signals # <<>>
        c == IF closes
             THEN ClosePosition(w, existing_signals[1], symbol, inp)
             ELSE [w |-> w, ret |-> FALSE, seen |-> "", n |-> 0]
        call == IF closes
                THEN [called |-> TRUE, id |-> existing_signals[1], seen |-> c.seen,
                      ret |-> c.ret, n |-> c.n]
                ELSE NoCall
    IN  IF conflict_action = "reject"
        THEN [w |-> w, conflict |-> conflict_action, close |-> NoCall, open |-> NoOpen]
        ELSE IF inp.price = 0
        THEN [w |-> c.w, conflict |-> conflict_action, close |-> call, open |-> NoOpen]
        ELSE LET sz == CalculatePositionSize(AssetSpecOf(symbol), inp.vault, inp.price,
                                             RiskPercentage, Leverage)
                 o == OpenPosition(c.w, id, symbol, is_buy, sz.size, inp.price, Leverage,
                                   inp)
             IN  [w |-> o.w, conflict |-> conflict_action, close |-> call,
                  open |-> [called |-> TRUE, ret |-> o.ret, n |-> o.n, filled |-> o.filled,
                            fill |-> o.fill]]

----------------------------------------------------------------------------
(* PositionManager.sync_positions_with_hyperliquid *)

NoSync == [database_positions |-> 0, actual_positions |-> 0, synced |-> 0,
           closed_in_db |-> 0, discrepancies |-> 0, moved |-> 0, left |-> 0]

\* the loop "for signal in open_signals" over the list q, with the exchange
\* positions `actual` read before it.  inps[id] holds what the outside
\* answers while signal id is handled.  acc = [w, res]
RECURSIVE SyncLoop(_, _, _, _)
SyncLoop(q, actual, inps, acc) ==
    IF q = <<>> THEN acc
    ELSE LET id == Head(q)
             symbol == acc.w.signals[id].asset
             inp == inps[id]
         IN  IF symbol \in actual
             THEN SyncLoop(Tail(q), actual, inps,
                      [acc EXCEPT !.res.synced = @ + 1])
             ELSE IF inp.price = 0
             THEN SyncLoop(Tail(q), actual, inps,
                      [acc EXCEPT !.res.discrepancies = @ + 1])
             ELSE LET c == RepoClosePosition(acc.w, id, inp.price, inp.dbc)
                  IN  SyncLoop(Tail(q), actual, inps,
                          [w |-> c.w,
                           res |-> [acc.res EXCEPT !.closed_in_db = @ + 1]])

SyncPositionsResolving(w, inps) ==
    LET open_signals == GetOpenPositions(w.signals)
        actual == {a \in Assets : w.pos[a].has /\ w.pos[a].szi # 0}
        db_symbols == {w.signals[open_signals[i]].asset : i \in 1..Len(open_signals)}
        r == SyncLoop(open_signals, {}, inps,
                 [w |-> w,
                  res |-> [NoSync EXCEPT !.database_positions = Len(open_signals),
                                         !.actual_positions = Cardinality(actual)]])
    IN  [w |-> [r.w EXCEPT !.pos = [a \in Assets |->
                                      IF a \in actual \ db_symbols THEN NoPosition ELSE @[a]],
                           !.placed = @ + Cardinality(actual \ db_symbols)],
         res |-> [r.res EXCEPT !.moved = 0, !.left = 0]]

\* sync_positions_with_hyperliquid.  moved and left are not part of the
\* returned dict: the signals this run moved from open to close, and the
\* open signals without a live position it left open
SyncPositions(w, inps) ==
    LET open_signals == GetOpenPositions(w.signals)
        actual == {a \in Assets : w.pos[a].has /\ w.pos[a].szi # 0}
        db_symbols == {w.signals[open_signals[i]].asset : i \in 1..Len(open_signals)}
        r == SyncLoop(open_signals, actual, inps,
                 [w |-> w,
                  res |-> [NoSync EXCEPT !.database_positions = Len(open_signals),
                                         !.actual_positions = Cardinality(actual)]])
    IN  [w |-> r.w,
         res |-> [r.res EXCEPT
                    !.discrepancies = @ + Cardinality(actual \ db_symbols),
                    !.moved = Cardinality({i \in Ids(w.signals) :
                                  /\ w.signals[i].position_status = OPEN
                                  /\ r.w.signals[i].position_status = CLOSE}),
                    !.left = Cardinality({i \in Ids(w.signals) :
                                  /\ w.signals[i].position_status = OPEN
                                  /\ w.signals[i].asset \notin actual
                                  /\ r.w.signals[i].position_status # CLOSE})]]

----------------------------------------------------------------------------
(* What the outside answers during one step *)

FillFirst == <<RespFilled, RespFilled, RespFilled>>
AllFail == <<RespError, RespResting, RespRaise>>

\* the prices the feed shows in the engine runs: to the pending pass and
\* the reconciler, and to the monitoring loop
EntryPrices == {1000}
MonPrices == {1110}

\* what can go wrong during one step; at most one of these per step
MonFaults == {"none", "noprice", "noprice2", "closefail", "dbc"}
PendFaults == MonFaults \cup {"openfail", "dbo", "dbr", "dbr2", "nobalance"}
SyncFaults == {"none", "noprice", "dbc"}

\* the answers of the outside during a step with price p and fault f;
\* keepsZero: how the exchange shows a position that became flat
InpOf(p, f, kz) ==
    [price |-> IF f = "noprice" THEN 0 ELSE p,
     price2 |-> IF f = "noprice2" THEN 0 ELSE p,
     couts |-> IF f = "closefail" THEN AllFail ELSE FillFirst,
     oouts |-> IF f = "openfail" THEN AllFail ELSE FillFirst,
     dbc |-> f # "dbc", dbo |-> f # "dbo", dbr |-> f # "dbr", dbr2 |-> f # "dbr2",
     keepsZero |-> kz,
     oid |-> 7,
     slip |-> IF f = "slip" THEN 10 ELSE 0,
     vault |-> IF f = "nobalance" THEN [ok |-> FALSE, total |-> 0]
               ELSE [ok |-> TRUE, total |-> 1000]]

MonInputs(prices, faults, kzs) == {InpOf(p, f, kz) : p \in prices, f \in faults, kz \in kzs}
PendInputs(prices, faults) == {InpOf(p, f, kz) : p \in prices, f \in faults, kz \in BOOLEAN}
\* a reconciliation: fault f strikes while signal k is handled
SyncInputs(prices) ==
    {[i \in 1..NumSignals |-> InpOf(p, IF i = k THEN f ELSE "none", FALSE)] :
        p \in prices, f \in SyncFaults, k \in 1..NumSignals}

----------------------------------------------------------------------------
(* The record of the last step *)

EvNone == [op |-> "init", id |-> 0, writes |-> <<>>, placed |-> 0, changed |-> FALSE,
           same |-> FALSE, opp |-> FALSE, query_ok |-> TRUE,
           conflict |-> "", close |-> NoCall, open |-> NoOpen, mon |-> NoMon,
           sync |-> NoSync]

\* whether the store holds an open signal for the asset of signal id in the
\* same (same = TRUE) or the opposite direction
HoldsOpen(sigs, id, same) ==
    \E j \in Ids(sigs) :
        /\ j # id
        /\ sigs[j].position_status = OPEN
        /\ sigs[j].asset = sigs[id].asset
        /\ (IsBuy(sigs[j]) = IsBuy(sigs[id])) = same

Ev(op, id) == [EvNone EXCEPT !.op = op, !.id = id]

\* the variables of the single calls, when no such call is modelled
RetryIdle == [outs |-> <<>>, maxr |-> 0, delay |-> 0, done |-> FALSE,
              res |-> [ok |-> FALSE, n |-> 0, delays |-> <<>>]]
CalcIdle == [spec |-> [known |-> FALSE, szd |-> 4], vault |-> [ok |-> FALSE, total |-> 0],
             price |-> 0, percentage |-> 0, done |-> FALSE,
             res |-> [size |-> OneLot, branch |-> ""]]
\* no monitoring thread was started.  active: monitoring_active;  pc: where
\* the thread of _monitoring_loop is;  list: open_signals of its cycle;
\* did, errs: the signals whose evaluation it ended and those that raised;
\* stopped, stopAt: whether stop_monitoring was called, and where the
\* thread was then
LoopIdle == [active |-> FALSE, pc |-> "none", list |-> <<>>, did |-> <<>>, errs |-> {},
             stopped |-> FALSE, stopAt |-> ""]
\* no closing order is followed
SentIdle == [spec |-> [known |-> FALSE, szd |-> 4], szd |-> 0, szi |-> 0, done |-> FALSE,
             is_buy |-> FALSE, size |-> OneLot]
\* PositionMonitor.__init__: monitoring_active = False, monitor_thread =
\* None.  threads: where each Thread made by start_monitoring is, the last
\* being monitor_thread;  calls: where each call of start_monitoring and
\* stop_monitoring is;  overlapped: whether a call was entered while
\* another had not returned
MonitorIdle == [monitoring_active |-> FALSE, threads |-> <<>>, calls |-> <<>>,
                overlapped |-> FALSE]
AuxIdle ==
    /\ loop = LoopIdle
    /\ closers = <<>>
    /\ sent = SentIdle
    /\ monitor = MonitorIdle

----------------------------------------------------------------------------
(* The engine: store, exchange, monitoring loop, pending pass, reconciler *)

Init ==
    /\ signals = <<>>
    /\ pos = [a \in Assets |-> NoPosition]
    /\ trailing = [i \in 1..NumSignals |-> NoState]
    /\ expired = FALSE
    /\ monq = <<>>
    /\ pendq = <<>>
    /\ ev = EvNone
    /\ hist = <<>>
    /\ calc = CalcIdle
    /\ retry = RetryIdle
    /\ AuxIdle

\* the inbound-signal handler: signal_repo.create_signal
CreateSignal ==
    /\ Len(signals) < NumSignals
    /\ \E dir \in {"buy", "sell"}, a \in Assets :
          /\ signals' = Append(signals, NewSignal(dir, a))
          /\ ev' = Ev("create", Len(signals) + 1)
    /\ UNCHANGED <<pos, trailing, expired, monq, pendq, hist, calc, retry, aux>>

\* time passes max_exit_time
Expire ==
    /\ ~expired
    /\ expired' = TRUE
    /\ ev' = Ev("expire", 0)
    /\ UNCHANGED <<signals, pos, trailing, monq, pendq, hist, calc, retry, aux>>

\* the position of an asset is closed outside the engine (liquidation,
\* manual intervention)
ExternalClose ==
    /\ \E a \in Assets, kz \in BOOLEAN :
          /\ pos[a].has /\ pos[a].szi # 0
          /\ pos' = [pos EXCEPT ![a] = EntryFor(0, kz)]
    /\ ev' = Ev("extclose", 0)
    /\ UNCHANGED <<signals, trailing, expired, monq, pendq, hist, calc, retry, aux>>

\* _monitoring_loop: open_signals = signal_repo.get_open_positions()
MonBegin ==
    /\ monq = <<>>
    /\ GetOpenPositions(signals) # <<>>
    /\ monq' = GetOpenPositions(signals)
    /\ ev' = Ev("monbegin", 0)
    /\ UNCHANGED <<signals, pos, trailing, expired, pendq, hist, calc, retry, aux>>

\* _monitoring_loop: self._process_position(signal) for the next signal
MonStep ==
    /\ monq # <<>>
    /\ \E inp \in MonInputs(MonPrices, MonFaults, BOOLEAN) :
          LET id == Head(monq)
              r == ProcessPosition(World(signals, pos), trailing, id, expired, inp)
          IN  /\ signals' = r.w.signals
              /\ pos' = r.w.pos
              /\ trailing' = r.tr
              /\ ev' = [Ev("mon", id) EXCEPT
                          !.writes = r.w.writes, !.placed = r.w.placed,
                          !.changed = (r.w.signals # signals \/ r.w.pos # pos
                                       \/ r.tr # trailing),
                          !.close = r.close]
    /\ monq' = Tail(monq)
    /\ UNCHANGED <<expired, pendq, hist, calc, retry, aux>>

\* process_pending_signals: pending_signals = signal_repo.get_pending_signals()
PendBegin ==
    /\ pendq = <<>>
    /\ GetPendingSignals(signals) # <<>>
    /\ pendq' = GetPendingSignals(signals)
    /\ ev' = Ev("pendbegin", 0)
    /\ UNCHANGED <<signals, pos, trailing, expired, monq, hist, calc, retry, aux>>

\* process_pending_signals: self._process_pending_signal(signal) for the next
PendStepWith(prices, faults) ==
    /\ pendq # <<>>
    /\ \E inp \in PendInputs(prices, faults) :
          LET id == Head(pendq)
              r == ProcessPendingSignal(World(signals, pos), id, inp)
          IN  /\ \A a \in Assets : Abs(r.w.pos[a].szi) <= MaxLots
              /\ signals' = r.w.signals
              /\ pos' = r.w.pos
              /\ ev' = [Ev("pend", id) EXCEPT
                          !.writes = r.w.writes, !.placed = r.w.placed,
                          !.changed = (r.w.signals # signals \/ r.w.pos # pos),
                          !.same = HoldsOpen(signals, id, TRUE),
                          !.opp = HoldsOpen(signals, id, FALSE),
                          !.query_ok = inp.dbr,
                          !.conflict = r.conflict, !.close = r.close, !.open = r.open]
    /\ pendq' = Tail(pendq)
    /\ UNCHANGED <<trailing, expired, monq, hist, calc, retry, aux>>

PendStep == PendStepWith(EntryPrices, PendFaults)

\* PositionManager.sync_positions_with_hyperliquid, on demand
Sync ==
    /\ \E inps \in SyncInputs(EntryPrices) :
          LET r == SyncPositions(World(signals, pos), inps)
          IN  /\ signals' = r.w.signals
              /\ pos' = r.w.pos
              /\ ev' = [Ev("sync", 0) EXCEPT
                          !.writes = r.w.writes, !.placed = r.w.placed,
                          !.changed = (r.w.signals # signals \/ r.w.pos # pos),
                          !.sync = r.res]
    /\ UNCHANGED <<trailing, expired, monq, pendq, hist, calc, retry, aux>>

Next ==
    \/ CreateSignal
    \/ Expire
    \/ ExternalClose
    \/ MonBegin
    \/ MonStep
    \/ PendBegin
    \/ PendStep
    \/ Sync

Spec == Init /\ [][Next]_vars

----------------------------------------------------------------------------
(* One signal under the monitoring loop: promoted, then evaluated once per *)
(* cycle over the prices the feed shows.  hist lists the cycles that got a *)
(* price: p the price, live whether the exchange showed a position, exp    *)
(* whether max_exit_time had passed, req whether close_position was        *)
(* called, ok what it returned.                                            *)

\* the prices of the worked example, a stop-loss and a tp2 price; and their
\* mirror image for a sell
GridOf(dir) ==
    IF dir = "buy" THEN {900, 1000, 1080, 1110, 1175, 1200, 1310}
    ELSE {1100, 1000, 920, 890, 820, 800, 690}

\* the prices of GridOf strictly between sl and tp2
CalmGridOf(dir) ==
    {p \in GridOf(dir) : ~StopLossHit(SignalDataOf(dir), p) /\ ~Tp2Hit(SignalDataOf(dir), p)}

InitOne(datas) ==
    /\ \E d \in datas : signals = <<NewSignalWith(d, "A")>>
    /\ pos = [a \in Assets |-> NoPosition]
    /\ trailing = [i \in 1..NumSignals |-> NoState]
    /\ expired = FALSE
    /\ monq = <<>>
    /\ pendq = <<>>
    /\ ev = EvNone
    /\ hist = <<>>
    /\ calc = CalcIdle
    /\ retry = RetryIdle
    /\ AuxIdle

\* process_pending_signals with the one pending signal
MonPromote ==
    /\ signals[1].position_status = FALSE_
    /\ \E inp \in PendInputs(EntryPrices, {"none", "openfail"}) :
          LET r == ProcessPendingSignal(World(signals, pos), 1, inp)
          IN  /\ signals' = r.w.signals
              /\ pos' = r.w.pos
              /\ ev' = [Ev("pend", 1) EXCEPT
                          !.writes = r.w.writes, !.placed = r.w.placed,
                          !.changed = (r.w.signals # signals \/ r.w.pos # pos),
                          !.conflict = r.conflict, !.close = r.close, !.open = r.open]
    /\ UNCHANGED <<trailing, expired, monq, pendq, hist, calc, retry, aux>>

\* one cycle of _monitoring_loop with the one open signal.  With `record`
\* the cycle is added to hist (and ev keeps only the kind of step)
Tick(prices, faults, record) ==
    /\ signals[1].position_status = OPEN
    /\ Len(hist) < MaxTicks
    /\ \E inp \in MonInputs(prices, faults, {FALSE}) :
          LET r == ProcessPosition(World(signals, pos), trailing, 1, expired, inp)
          IN  /\ signals' = r.w.signals
              /\ pos' = r.w.pos
              /\ trailing' = r.tr
              /\ ev' = IF record THEN Ev("tick", 1)
                        ELSE [Ev("tick", 1) EXCEPT
                                !.writes = r.w.writes, !.placed = r.w.placed,
                                !.changed = (r.w.signals # signals \/ r.w.pos # pos
                                             \/ r.tr # trailing),
                                !.close = r.close, !.mon = r.mon]
              /\ hist' = IF inp.price = 0 \/ ~record THEN hist
                         ELSE Append(hist, [p |-> inp.price,
                                            live |-> r.mon.seen = "live",
                                            exp |-> expired,
                                            req |-> r.close.called,
                                            ok |-> r.close.ret])
    /\ UNCHANGED <<expired, monq, pendq, calc, retry, aux>>

MonTick == Tick(GridOf(signals[1].signal_data.signal_message), MonFaults, FALSE)

\* time passes max_exit_time
MonExpire ==
    /\ ~expired
    /\ expired' = TRUE
    /\ ev' = Ev("expire", 0)
    /\ UNCHANGED <<signals, pos, trailing, monq, pendq, hist, calc, retry, aux>>

\* the position is closed outside the engine
MonExternalClose ==
    /\ pos["A"].has /\ pos["A"].szi # 0
    /\ \E kz \in BOOLEAN : pos' = [pos EXCEPT !["A"] = EntryFor(0, kz)]
    /\ ev' = Ev("extclose", 0)
    /\ UNCHANGED <<signals, trailing, expired, monq, pendq, hist, calc, retry, aux>>

NextMon == MonPromote \/ MonTick \/ MonExpire \/ MonExternalClose

InitMon == InitOne({SignalDataOf("buy"), SignalDataOf("sell"), CrossedData})

SpecMon == InitMon /\ [][NextMon]_vars

\* the same signal with the history of its cycles kept, while the exchange
\* position is left alone and max_exit_time is not reached
TrailTick ==
    Tick(CalmGridOf(signals[1].signal_data.signal_message), {"none", "closefail"}, TRUE)

NextTrail == MonPromote \/ TrailTick

InitTrail == InitOne({SignalDataOf("buy"), SignalDataOf("sell")})

SpecTrail == InitTrail /\ [][NextTrail]_vars

----------------------------------------------------------------------------
(* The pending-signal pass on its own, at two price levels and with fills  *)
(* whose average price is not the price the monitor read                   *)

FillPrices == {1000, 5000}
FillFaults == PendFaults \cup {"slip"}

FillStep == PendStepWith(FillPrices, FillFaults)

NextFill == CreateSignal \/ PendBegin \/ FillStep

SpecFill == Init /\ [][NextFill]_vars

----------------------------------------------------------------------------
(* One call of _retry_with_backoff on its own *)

\* the answers a call of _retry_with_backoff may get, for each max_retries
RetryInputs ==
    UNION {[1..m -> Responses] : m \in 1..MaxRetriesCfg}

InitRetry ==
    /\ signals = <<>>
    /\ pos = [a \in Assets |-> NoPosition]
    /\ trailing = [i \in 1..NumSignals |-> NoState]
    /\ expired = FALSE
    /\ monq = <<>>
    /\ pendq = <<>>
    /\ ev = EvNone
    /\ hist = <<>>
    /\ calc = CalcIdle
    /\ AuxIdle
    /\ \E o \in RetryInputs, d \in {1, 2} :
          retry = [RetryIdle EXCEPT !.outs = o, !.maxr = Len(o), !.delay = d]

\* self._retry_with_backoff(operation_func, ...)
RetryCall ==
    /\ ~retry.done
    /\ retry' = [retry EXCEPT !.done = TRUE,
                              !.res = RetryWithBackoff(retry.outs, retry.maxr, retry.delay)]
    /\ UNCHANGED <<signals, pos, trailing, expired, monq, pendq, ev, hist, calc, aux>>

NextRetry == RetryCall

SpecRetry == InitRetry /\ [][NextRetry]_vars

----------------------------------------------------------------------------
(* The monitoring thread, statement by statement, beside the callers that  *)
(* create signals, promote them and start and stop the monitoring.         *)
(* start_monitoring is called once in a run.                               *)

LoopFaults == {"none", "closefail"}
PromoteFaults == {"none", "dbr"}

LoopFrame == UNCHANGED <<expired, pendq, ev, hist, calc, retry, closers, sent, monitor>>

\* start_monitoring
StartMonitoring ==
    /\ ~loop.active
    /\ loop.pc = "none"
    /\ loop' = [loop EXCEPT !.active = TRUE, !.pc = "while"]
    /\ UNCHANGED <<signals, pos, trailing, monq>>
    /\ LoopFrame

\* stop_monitoring: the flag; the join only waits
StopMonitoring ==
    /\ loop.active
    /\ loop' = [loop EXCEPT !.active = FALSE, !.stopped = TRUE, !.stopAt = loop.pc]
    /\ UNCHANGED <<signals, pos, trailing, monq>>
    /\ LoopFrame

WhileTestIgnoresFlag(active) == TRUE

\* _monitoring_loop: while self.monitoring_active
WhileTest(active) == active

LoopWhile ==
    /\ loop.pc = "while"
    /\ loop' = [loop EXCEPT !.pc = IF WhileTest(loop.active) THEN "fetch" ELSE "done"]
    /\ UNCHANGED <<signals, pos, trailing, monq>>
    /\ LoopFrame

\* _monitoring_loop: open_signals = signal_repo.get_open_positions(), the
\* empty list when the query fails; nothing open: sleep and continue
LoopFetch ==
    /\ loop.pc = "fetch"
    /\ \E dbok \in BOOLEAN :
          LET open_signals == IF dbok THEN GetOpenPositions(signals) ELSE <<>>
          IN  /\ monq' = open_signals
              /\ loop' = [loop EXCEPT !.list = open_signals, !.did = <<>>, !.errs = {},
                                      !.pc = IF open_signals = <<>> THEN "sleep" ELSE "each"]
    /\ UNCHANGED <<signals, pos, trailing>>
    /\ LoopFrame

AfterSignalAbortsCycle(rest, raised) ==
    IF raised \/ rest = <<>> THEN "sleep" ELSE "each"

\* _monitoring_loop: the inner try/except logs what _process_position
\* raised and the for loop goes on with the rest of open_signals
AfterSignal(rest, raised) == IF rest = <<>> THEN "sleep" ELSE "each"

\* _monitoring_loop: self._process_position(signal) for the next signal of
\* the cycle; raises: the evaluation raises at the position check
LoopEach ==
    /\ loop.pc = "each"
    /\ monq # <<>>
    /\ \E inp \in MonInputs(MonPrices, LoopFaults, {FALSE}), raises \in BOOLEAN :
          LET id == Head(monq)
              r == ProcessPosition(World(signals, pos), trailing, id, expired, inp)
          IN  /\ signals' = IF raises THEN signals ELSE r.w.signals
              /\ pos' = IF raises THEN pos ELSE r.w.pos
              /\ trailing' = IF raises THEN trailing ELSE r.tr
              /\ loop' = [loop EXCEPT !.did = Append(@, id),
                                      !.errs = IF raises THEN @ \cup {id} ELSE @,
                                      !.pc = AfterSignal(Tail(monq), raises)]
    /\ monq' = Tail(monq)
    /\ LoopFrame

\* _monitoring_loop: time.sleep(self.check_interval)
LoopSleep ==
    /\ loop.pc = "sleep"
    /\ loop' = [loop EXCEPT !.pc = "while", !.list = <<>>, !.did = <<>>, !.errs = {}]
    /\ monq' = <<>>
    /\ UNCHANGED <<signals, pos, trailing>>
    /\ LoopFrame

\* the steps of the monitoring thread
LoopThread == LoopWhile \/ LoopFetch \/ LoopEach \/ LoopSleep

\* a caller outside the thread runs _process_pending_signal for a pending
\* signal
LoopPromote ==
    /\ \E k \in 1..Len(GetPendingSignals(signals)),
          inp \in PendInputs(EntryPrices, PromoteFaults) :
          LET r == ProcessPendingSignal(World(signals, pos), GetPendingSignals(signals)[k], inp)
          IN  /\ \A a \in Assets : Abs(r.w.pos[a].szi) <= MaxLots
              /\ signals' = r.w.signals
              /\ pos' = r.w.pos
    /\ UNCHANGED <<trailing, monq, loop>>
    /\ LoopFrame

NextLoop ==
    \/ CreateSignal
    \/ LoopPromote
    \/ StartMonitoring
    \/ StopMonitoring
    \/ LoopWhile
    \/ LoopFetch
    \/ LoopEach
    \/ LoopSleep

\* the thread runs whenever it can: it is a thread of its own
SpecLoop == Init /\ [][NextLoop]_vars /\ WF_vars(LoopThread)

----------------------------------------------------------------------------
(* start_monitoring and stop_monitoring called on one PositionMonitor, by   *)
(* any callers and in any interleaving, and the threads they make.  Each   *)
(* test, assignment and wait is one step.  The store holds no open signal, *)
(* so every cycle of a thread takes the branch "if not open_signals".      *)
(* monitor.calls[k] = [op, pc, timed_out];  monitor.threads[t] is where    *)
(* thread t is: "while", "cycle", "sleep" or "done".                       *)

ThreadsFrame ==
    UNCHANGED <<signals, pos, trailing, expired, monq, pendq, ev, hist, calc, retry,
                loop, closers, sent>>

NewCall(op, pc) == [op |-> op, pc |-> pc, timed_out |-> FALSE]

\* whether thread t was started and has not returned from _monitoring_loop
IsAlive(threads, t) == t \in 1..Len(threads) /\ threads[t] # "done"

\* whether a call of start_monitoring or stop_monitoring has not returned
InCall(calls) == \E k \in 1..Len(calls) : calls[k].pc # "ret"

\* a caller enters start_monitoring
CallStartMonitoring ==
    /\ Len(monitor.calls) < MaxCalls
    /\ monitor' = [monitor EXCEPT
                     !.calls = Append(@, NewCall("start", "test")),
                     !.overlapped = @ \/ InCall(monitor.calls)]
    /\ ThreadsFrame

\* start_monitoring: if not self.monitoring_active
StartTest ==
    /\ \E k \in 1..Len(monitor.calls) :
          /\ monitor.calls[k].op = "start" /\ monitor.calls[k].pc = "test"
          /\ monitor' = [monitor EXCEPT
                           !.calls[k].pc = IF ~monitor.monitoring_active
                                           THEN "create" ELSE "ret"]
    /\ ThreadsFrame

\* start_monitoring: monitoring_active = True; monitor_thread = Thread(...);
\* monitor_thread.start()
StartCreate ==
    /\ \E k \in 1..Len(monitor.calls) :
          /\ monitor.calls[k].op = "start" /\ monitor.calls[k].pc = "create"
          /\ monitor' = [monitor EXCEPT
                           !.monitoring_active = TRUE,
                           !.threads = Append(@, "while"),
                           !.calls[k].pc = "ret"]
    /\ ThreadsFrame

\* a caller enters stop_monitoring
CallStopMonitoring ==
    /\ Len(monitor.calls) < MaxCalls
    /\ monitor' = [monitor EXCEPT
                     !.calls = Append(@, NewCall("stop", "clear")),
                     !.overlapped = @ \/ InCall(monitor.calls)]
    /\ ThreadsFrame

\* stop_monitoring: self.monitoring_active = False
StopClear ==
    /\ \E k \in 1..Len(monitor.calls) :
          /\ monitor.calls[k].op = "stop" /\ monitor.calls[k].pc = "clear"
          /\ monitor' = [monitor EXCEPT
                           !.monitoring_active = FALSE,
                           !.calls[k].pc = "join"]
    /\ ThreadsFrame

\* stop_monitoring: if monitor_thread and monitor_thread.is_alive():
\* monitor_thread.join(timeout=10).  The join returns when the thread has
\* ended, or after 10 seconds with the thread still in a cycle or in its
\* sleep of check_interval seconds
StopJoin ==
    /\ \E k \in 1..Len(monitor.calls) :
          /\ monitor.calls[k].op = "stop" /\ monitor.calls[k].pc = "join"
          /\ monitor' = [monitor EXCEPT
                           !.calls[k].pc = "ret",
                           !.calls[k].timed_out =
                               IsAlive(monitor.threads, Len(monitor.threads))]
    /\ ThreadsFrame

\* _monitoring_loop of a thread: while self.monitoring_active
ThreadWhile ==
    /\ \E t \in 1..Len(monitor.threads) :
          /\ monitor.threads[t] = "while"
          /\ monitor' = [monitor EXCEPT
                           !.threads[t] = IF WhileTest(monitor.monitoring_active)
                                          THEN "cycle" ELSE "done"]
    /\ ThreadsFrame

\* _monitoring_loop of a thread: open_signals = get_open_positions();
\* if not open_signals
ThreadCycle ==
    /\ GetOpenPositions(signals) = <<>>
    /\ \E t \in 1..Len(monitor.threads) :
          /\ monitor.threads[t] = "cycle"
          /\ monitor' = [monitor EXCEPT !.threads[t] = "sleep"]
    /\ ThreadsFrame

\* _monitoring_loop of a thread: time.sleep(self.check_interval); continue
ThreadSleep ==
    /\ \E t \in 1..Len(monitor.threads) :
          /\ monitor.threads[t] = "sleep"
          /\ monitor' = [monitor EXCEPT !.threads[t] = "while"]
    /\ ThreadsFrame

NextThreads ==
    \/ CallStartMonitoring
    \/ StartTest
    \/ StartCreate
    \/ CallStopMonitoring
    \/ StopClear
    \/ StopJoin
    \/ ThreadWhile
    \/ ThreadCycle
    \/ ThreadSleep

SpecThreads == Init /\ [][NextThreads]_vars

----------------------------------------------------------------------------
(* Close requests for one open signal running concurrently: the monitoring *)
(* thread evaluating the signal after max_exit_time, and threads that call *)
(* PositionManager.close_position on request.  Each call of the exchange   *)
(* or of the store is one step.  closers[k] = [kind, pc, szi, det, exit,   *)
(* ret, n, filled]: szi the position size the closer read, det the         *)
(* position details it read, exit the exit price it is about to store, n   *)
(* its calls of exchange.order, filled whether one of them was filled.     *)

RacePrices == {1100, 1110}

NewCloser(kind, pc) ==
    [kind |-> kind, pc |-> pc, szi |-> 0, det |-> NoDetails, exit |-> 0, ret |-> FALSE,
     n |-> 0, filled |-> FALSE]

\* a buy signal promoted at the entry price: open, with a long position
InitRace ==
    /\ LET s0 == <<NewSignal("buy", "A")>>
           r == ProcessPendingSignal(World(s0, [a \in Assets |-> NoPosition]), 1,
                                     InpOf(1000, "none", FALSE))
       IN  signals = r.w.signals /\ pos = r.w.pos
    /\ trailing = [i \in 1..NumSignals |-> NoState]
    /\ expired = TRUE
    /\ monq = <<>>
    /\ pendq = <<>>
    /\ ev = EvNone
    /\ hist = <<>>
    /\ calc = CalcIdle
    /\ retry = RetryIdle
    /\ loop = LoopIdle
    /\ closers = <<>>
    /\ sent = SentIdle
    /\ monitor = MonitorIdle

RaceFrame ==
    UNCHANGED <<trailing, expired, monq, pendq, ev, hist, calc, retry, loop, sent, monitor>>

\* a request thread calls PositionManager.close_position for the signal
RaceRequest ==
    /\ Len(closers) < MaxClosers
    /\ signals[1].position_status = OPEN
    /\ closers' = Append(closers, NewCloser("request", "start"))
    /\ UNCHANGED <<signals, pos>>
    /\ RaceFrame

\* the monitoring thread takes the signal from get_open_positions and
\* begins _process_position
RaceMonitor ==
    /\ Len(closers) < MaxClosers
    /\ \A k \in 1..Len(closers) : closers[k].kind # "monitor"
    /\ signals[1].position_status = OPEN
    /\ closers' = Append(closers, NewCloser("monitor", "check"))
    /\ UNCHANGED <<signals, pos>>
    /\ RaceFrame

\* _process_position: current price, then the check that the position
\* still exists; max_exit_time has passed, so a live position is closed
RaceCheck ==
    \E k \in 1..Len(closers) :
          /\ closers[k].pc = "check"
          /\ \E p \in RacePrices :
                closers' = [closers EXCEPT ![k] =
                    IF ~pos["A"].has \/ pos["A"].szi = 0
                    THEN [@ EXCEPT !.pc = "read", !.exit = p]
                    ELSE [@ EXCEPT !.pc = "start"]]
          /\ UNCHANGED <<signals, pos>>
          /\ RaceFrame

\* close_position: position = self.trader.get_position(symbol)
RaceStart ==
    \E k \in 1..Len(closers) :
          /\ closers[k].pc = "start"
          /\ closers' = [closers EXCEPT ![k] =
                IF ~pos["A"].has THEN [@ EXCEPT !.pc = "done", !.ret = FALSE]
                ELSE IF pos["A"].szi = 0 THEN [@ EXCEPT !.pc = "zero"]
                ELSE [@ EXCEPT !.pc = "order", !.szi = pos["A"].szi]]
          /\ UNCHANGED <<signals, pos>>
          /\ RaceFrame

\* close_position, size 0: update_position_status(signal_id, CLOSE)
RaceZero ==
    \E k \in 1..Len(closers) :
          /\ closers[k].pc = "zero"
          /\ signals' = UpdatePositionStatus(World(signals, pos), 1, CLOSE, NoDetails, TRUE).w.signals
          /\ closers' = [closers EXCEPT ![k] = [@ EXCEPT !.pc = "done", !.ret = TRUE]]
          /\ UNCHANGED pos
          /\ RaceFrame

\* close_position: current price and the closing order, with its retries
RaceOrder ==
    \E k \in 1..Len(closers) :
          /\ closers[k].pc = "order"
          /\ \E p \in RacePrices, outs \in {FillFirst, AllFail}, kz \in BOOLEAN :
                LET c == closers[k]
                    r == RetryWithBackoff(outs, MaxRetries, RetryDelay)
                    close_size == OrderLots("A", Rat(Abs(c.szi), 1))
                IN  IF r.ok
                    THEN /\ pos' = Fill(World(signals, pos), "A", c.szi < 0, close_size.num, kz).pos
                         /\ closers' = [closers EXCEPT ![k] =
                                [@ EXCEPT !.pc = "read", !.exit = p, !.n = r.n, !.filled = TRUE]]
                    ELSE /\ pos' = pos
                         /\ closers' = [closers EXCEPT ![k] =
                                [@ EXCEPT !.pc = "done", !.ret = FALSE, !.n = r.n]]
          /\ UNCHANGED signals
          /\ RaceFrame

\* SignalRepository.close_position: signal = self.get_signal_by_id(signal_id)
RaceRead ==
    \E k \in 1..Len(closers) :
          /\ closers[k].pc = "read"
          /\ closers' = [closers EXCEPT ![k] =
                IF ~signals[1].position_details.has
                THEN [@ EXCEPT !.pc = "done", !.ret = FALSE]
                ELSE [@ EXCEPT !.pc = "write", !.det = signals[1].position_details]]
          /\ UNCHANGED <<signals, pos>>
          /\ RaceFrame

\* SignalRepository.close_position: update_position_status(signal_id,
\* CLOSE, position_details) with the details read before
RaceWrite ==
    \E k \in 1..Len(closers) :
          /\ closers[k].pc = "write"
          /\ signals' = UpdatePositionStatus(World(signals, pos), 1, CLOSE,
                            [closers[k].det EXCEPT !.exit = closers[k].exit], TRUE).w.signals
          /\ closers' = [closers EXCEPT ![k] = [@ EXCEPT !.pc = "done", !.ret = TRUE]]
          /\ UNCHANGED pos
          /\ RaceFrame

NextRace ==
    \/ RaceRequest
    \/ RaceMonitor
    \/ RaceCheck
    \/ RaceStart
    \/ RaceZero
    \/ RaceOrder
    \/ RaceRead
    \/ RaceWrite

SpecRace == InitRace /\ [][NextRace]_vars

----------------------------------------------------------------------------
(* One closing order on its way to the exchange.  The exchange keeps the   *)
(* position of an asset in steps of 10 ** -szDecimals;  sent.szi is the    *)
(* live position in these steps, sent.spec what get_asset_specs holds for  *)
(* the asset: its entry, or none when the lookup of the specifications     *)
(* failed and the cache is empty.                                          *)

ExchangeDecimals == {0, 1, 3, 5}

\* close_position: is_buy, close_size from the live position, and the size
\* place_order passes to exchange.order, in minimum sizes of the code
ClosingOrder(spec, szd, szi) ==
    LET close_size == Rat(Abs(szi) * LotsPerUnit(spec), Pow(10, szd))
    IN  [is_buy |-> szi < 0, size |-> ValidateAndAdjustSize(spec, close_size)]

InitOrder ==
    /\ signals = <<>>
    /\ pos = [a \in Assets |-> NoPosition]
    /\ trailing = [i \in 1..NumSignals |-> NoState]
    /\ expired = FALSE
    /\ monq = <<>>
    /\ pendq = <<>>
    /\ ev = EvNone
    /\ hist = <<>>
    /\ calc = CalcIdle
    /\ retry = RetryIdle
    /\ loop = LoopIdle
    /\ closers = <<>>
    /\ monitor = MonitorIdle
    /\ \E d \in ExchangeDecimals, known \in BOOLEAN, z \in (-MaxLots..MaxLots) \ {0} :
          sent = [SentIdle EXCEPT
                    !.spec = IF known THEN [known |-> TRUE, szd |-> d]
                             ELSE [known |-> FALSE, szd |-> 4],
                    !.szd = d, !.szi = z]

\* close_position up to exchange.order
OrderCall ==
    /\ ~sent.done
    /\ LET o == ClosingOrder(sent.spec, sent.szd, sent.szi)
       IN  sent' = [sent EXCEPT !.done = TRUE, !.is_buy = o.is_buy, !.size = o.size]
    /\ UNCHANGED <<signals, pos, trailing, expired, monq, pendq, ev, hist, calc, retry,
                   loop, closers, monitor>>

NextOrder == OrderCall

SpecOrder == InitOrder /\ [][NextOrder]_vars

----------------------------------------------------------------------------
(* One call of calculate_position_size on its own *)

CalcVaults == {[ok |-> FALSE, total |-> 0], [ok |-> TRUE, total |-> 0],
               [ok |-> TRUE, total |-> 1], [ok |-> TRUE, total |-> 50],
               [ok |-> TRUE, total |-> 200]}
CalcPrices == {0, 10, 1000, 5000, 600000}
CalcPercentages == {10, 50}

InitCalc ==
    /\ signals = <<>>
    /\ pos = [a \in Assets |-> NoPosition]
    /\ trailing = [i \in 1..NumSignals |-> NoState]
    /\ expired = FALSE
    /\ monq = <<>>
    /\ pendq = <<>>
    /\ ev = EvNone
    /\ hist = <<>>
    /\ retry = RetryIdle
    /\ AuxIdle
    /\ \E sp \in AssetSpecs, v \in CalcVaults, p \in CalcPrices, pc \in CalcPercentages :
          calc = [CalcIdle EXCEPT !.spec = sp, !.vault = v, !.price = p, !.percentage = pc]

\* self.trader.calculate_position_size(symbol, current_price, percentage, leverage)
CalcCall ==
    /\ ~calc.done
    /\ calc' = [calc EXCEPT !.done = TRUE,
                            !.res = CalculatePositionSize(calc.spec, calc.vault, calc.price,
                                                          calc.percentage, Leverage)]
    /\ UNCHANGED <<signals, pos, trailing, expired, monq, pendq, ev, hist, retry, aux>>

NextCalc == CalcCall

SpecCalc == InitCalc /\ [][NextCalc]_vars



----------------------------------------------------------------------------
(* Properties *)

\* C9: a call makes at most max_retries order placements and at least one;
\* it succeeds exactly when some attempt within max_retries is filled and
\* then stops at the first filled attempt; after failed attempt i (from 0)
\* that is not the last it waits retry_delay * 2^i, and it does not wait
\* after the last attempt; an attempt that raises is a failed attempt.
C9_RetryBounded ==
    retry.done =>
        LET r == retry.res
            filled(i) == retry.outs[i] = RespFilled
            firstFilled == CHOOSE i \in 1..retry.maxr :
                              filled(i) /\ \A j \in 1..(i - 1) : ~filled(j)
        IN  /\ r.n >= 1 /\ r.n <= retry.maxr
            /\ r.ok = (\E i \in 1..retry.maxr : filled(i))
            /\ r.ok => r.n = firstFilled
            /\ ~r.ok => r.n = retry.maxr
            /\ Len(r.delays) = (IF r.ok THEN r.n - 1 ELSE retry.maxr - 1)
            /\ \A i \in 1..Len(r.delays) : r.delays[i] = retry.delay * 2^(i - 1)

\* three attempts that all fail, the first by raising: two waits, 1 and 2
C9_Witness ==
    /\ retry.done
    /\ retry.maxr = MaxRetries
    /\ retry.delay = RetryDelay
    /\ retry.outs[1] = RespRaise
    /\ ~retry.res.ok
    /\ retry.res.n = 3
    /\ retry.res.delays = <<1, 2>>

\* C17: an attempt of _retry_with_backoff is a success only when the response
\* has status ok, type order and a first status entry 'filled'; the call
\* succeeds exactly at the first such response, and every other response
\* (error, resting, empty statuses, other type, error status, none, raise)
\* is followed by another attempt while attempts remain.
C17_OnlyFilledSucceeds ==
    retry.done =>
        LET r == retry.res
            good(i) == /\ retry.outs[i].status = "ok"
                       /\ retry.outs[i].type = "order"
                       /\ retry.outs[i].statuses # <<>>
                       /\ Head(retry.outs[i].statuses) = "filled"
        IN  /\ r.ok => good(r.n)
            /\ \A i \in 1..retry.maxr :
                  (i <= r.n /\ ~good(i)) => (IF i < retry.maxr THEN r.n > i ELSE ~r.ok)
            /\ \A i \in 1..(r.n - 1) : ~good(i)

\* a resting order, then no response, then a fill: success at the third call
C17_Witness ==
    /\ retry.done
    /\ retry.maxr = MaxRetries
    /\ retry.outs = <<RespResting, RespNone, RespFilled>>
    /\ retry.res.ok
    /\ retry.res.n = 3

\* C18: a promotion of a pending signal in which no opening order is filled
\* (no market price, or every attempt of open_position failed) does not
\* return success and writes nothing for that signal: the signal is still
\* pending, without position details, and is in the list the next
\* pending-signal pass reads.
C18_NoFillNoWrite ==
    (ev.op = "pend" /\ ~ev.open.filled) =>
        /\ ~ev.open.ret
        /\ \A k \in 1..Len(ev.writes) : ev.writes[k].id # ev.id
        /\ signals[ev.id].position_status = FALSE_
        /\ signals[ev.id].position_details = NoDetails
        /\ \E k \in 1..Len(GetPendingSignals(signals)) :
              GetPendingSignals(signals)[k] = ev.id

\* open_position used all its attempts without a fill
C18_Witness ==
    /\ ev.op = "pend"
    /\ ev.open.called
    /\ ~ev.open.filled
    /\ ev.open.n = MaxRetries
    /\ ev.placed = MaxRetries
    /\ signals[ev.id].position_status = FALSE_

\* C19: open_position returns success exactly when an order was filled and
\* the store write of status open was made; on success the stored signal is
\* open with the order id, average price and size of the fill, their product
\* as notional and the leverage; a fill whose store write fails gives failure.
C19_OpenSuccessIffFilledAndStored ==
    (ev.op = "pend" /\ ev.open.called) =>
        LET stored == \E k \in 1..Len(ev.writes) :
                         ev.writes[k].id = ev.id /\ ev.writes[k].to = OPEN
            fd == ev.open.fill
            det == signals[ev.id].position_details
        IN  /\ ev.open.ret = (ev.open.filled /\ stored)
            /\ ev.open.ret =>
                  /\ signals[ev.id].position_status = OPEN
                  /\ det.has
                  /\ det.oid = ToString(fd.oid)
                  /\ det.entry = fd.avgPx
                  /\ det.size = fd.totalSz
                  /\ det.usd = fd.totalSz * fd.avgPx
                  /\ det.leverage = Leverage
                  /\ det.exit = 0
            /\ (ev.open.filled /\ ~stored) =>
                  /\ ~ev.open.ret
                  /\ signals[ev.id].position_status = FALSE_

\* a fill at 501.0 of an order priced at 500.0, recorded with the fill's price
C19_Witness ==
    /\ ev.op = "pend"
    /\ ev.open.ret
    /\ ev.open.fill.avgPx = 5010
    /\ signals[ev.id].position_status = OPEN
    /\ signals[ev.id].position_details.entry = 5010
    /\ signals[ev.id].position_details.usd = 5010

\* C20: the closing order has the side opposite to the sign of the live
\* position and a size equal to the absolute live position size; the
\* minimum-size adjustment of place_order neither raises nor rounds it.
C20_ExactClosingOrder ==
    sent.done =>
        /\ sent.is_buy = (sent.szi < 0)
        /\ sent.size.num * Pow(10, sent.szd)
              = Abs(sent.szi) * LotsPerUnit(sent.spec) * sent.size.den

\* C20, the side alone: buy for a short, sell for a long
C20_OppositeSide ==
    sent.done => (sent.is_buy = (sent.szi < 0))

\* C20, the size when get_asset_specs holds the asset's entry
C20_ExactSizeWithSpecs ==
    (sent.done /\ sent.spec.known) =>
        sent.size.num * Pow(10, sent.szd)
            = Abs(sent.szi) * LotsPerUnit(sent.spec) * sent.size.den

\* C13: when close requests for the same open signal run concurrently, at
\* most one closing order is filled for the position and the long position
\* is never turned into a short one.
C13_RaceSafe ==
    /\ Cardinality({k \in 1..Len(closers) : closers[k].filled}) <= 1
    /\ pos["A"].szi >= 0

\* C14: between a closer's read of the position details and its write of
\* status close with the exit fields, no other writer changes the signal.
C14_AtomicCloseWrite ==
    [][\A k \in 1..Len(closers) :
          closers[k].pc = "write" => (signals' = signals \/ closers'[k].pc = "done")]_vars

\* C12: while the monitoring thread is running, a pending signal whose asset
\* has no open signal is eventually opened (unless the monitoring is stopped
\* or another signal of the asset is opened first).
C12_PendingEventuallyOpened ==
    \A i \in 1..NumSignals :
        LET running == loop.active /\ loop.pc \notin {"none", "done"}
            pending == i <= Len(signals) /\ signals[i].position_status = FALSE_
            openOnAsset == \E j \in 1..Len(signals) :
                              /\ signals[j].position_status = OPEN
                              /\ signals[j].asset = signals[i].asset
        IN  (running /\ pending /\ ~openOnAsset)
                ~> (~running \/ ~pending \/ openOnAsset)

\* C15: in a cycle of the monitoring thread every signal of open_signals is
\* evaluated, in order, whether or not the evaluation of an earlier one
\* raised; and the thread has left its while loop only if stop_monitoring
\* was called and monitoring_active is false.
C15_ErrorsDoNotStopTheLoop ==
    /\ loop.pc \in {"each", "sleep"} => loop.did \o monq = loop.list
    /\ loop.pc = "sleep" => loop.did = loop.list
    /\ loop.errs # {} => loop.pc \in {"each", "sleep"}
    /\ loop.pc = "done" => (loop.stopped /\ ~loop.active)

\* the first of two open signals raised and the second was still evaluated
C15_Witness ==
    /\ loop.pc = "sleep"
    /\ Len(loop.list) = 2
    /\ loop.list[1] \in loop.errs
    /\ loop.list[2] \notin loop.errs
    /\ loop.did = loop.list

\* C16: after stop_monitoring the thread ends the evaluation of the signals
\* of the cycle it is in, begins no cycle once it has seen the flag false,
\* and terminates.
C16_StopEndsTheLoop ==
    /\ loop.stopped ~> (loop.pc = "done")
    /\ [][/\ (loop.stopped /\ loop.pc = "each") =>
                (loop'.did = Append(loop.did, Head(monq))
                 /\ loop'.pc = (IF Tail(monq) = <<>> THEN "sleep" ELSE "each"))
          /\ (loop.stopped /\ loop.pc = "while") => loop'.pc = "done"
          /\ loop.pc = "done" => loop'.pc = "done"]_loop

\* stopped in the middle of a cycle, and terminated
C16_Witness ==
    /\ loop.stopped
    /\ loop.stopAt = "each"
    /\ loop.pc = "done"

\* C21: when the monitor evaluates an open signal with a current price and
\* the exchange shows no position or a position of size zero for its asset,
\* no exit condition is evaluated, close_position of the PositionManager is
\* not called and no order is placed; and when the store write is made, the
\* signal is closed in that cycle with exit price equal to that price.
C21_ExternallyClosedDetected ==
    (ev.op = "tick" /\ ev.mon.price # 0 /\ ev.mon.seen \in {"none", "zero"}) =>
        /\ ~ev.mon.decided
        /\ ~ev.close.called
        /\ ev.placed = 0
        /\ ev.mon.repo_ret =>
              /\ signals[ev.id].position_status = CLOSE
              /\ signals[ev.id].position_details.exit = ev.mon.price
              /\ ev.writes = <<[id |-> ev.id, from |-> OPEN, to |-> CLOSE]>>
        /\ ~ev.mon.repo_ret =>
              /\ signals[ev.id].position_status = OPEN
              /\ ev.writes = <<>>

\* the exchange dropped the position and the monitor closed the signal at 111.0
C21_Witness ==
    /\ ev.op = "tick"
    /\ ev.mon.seen = "none"
    /\ ev.mon.price = 1110
    /\ ev.mon.repo_ret
    /\ signals[ev.id].position_status = CLOSE
    /\ signals[ev.id].position_details.exit = 1110

\* C21 as stated: in every such cycle the signal is closed with exit price
\* equal to the current price.
C21_AlwaysClosedInThatCycle ==
    (ev.op = "tick" /\ ev.mon.price # 0 /\ ev.mon.seen \in {"none", "zero"}) =>
        /\ signals[ev.id].position_status = CLOSE
        /\ signals[ev.id].position_details.exit = ev.mon.price

\* C22: the trailing state of a signal exists only while the signal is
\* open: after every cycle the keys of the trailing-state map are open
\* signals.
C22_TrailingOnlyWhileOpen ==
    \A i \in 1..Len(signals) :
        trailing[i].has => signals[i].position_status = OPEN

\* C23: when the monitor decides to exit and close_position returns failure,
\* the signal is still open in the store and is in the list the next cycle
\* reads, and its trailing state is kept as the evaluation left it: armed or
\* not, with its peak or low, and nothing else.
C23_FailedCloseKeepsOpen ==
    (ev.op = "tick" /\ ev.close.called /\ ~ev.close.ret) =>
        /\ ev.mon.should_close
        /\ signals[ev.id].position_status = OPEN
        /\ \E k \in 1..Len(GetOpenPositions(signals)) :
              GetOpenPositions(signals)[k] = ev.id
        /\ trailing[ev.id].has
        /\ trailing[ev.id] = ev.mon.after
        /\ ev.writes = <<>>

\* a trailing exit whose closing attempts were all rejected: the signal is
\* open and still armed with its peak
C23_Witness ==
    /\ ev.op = "tick"
    /\ ev.close.called /\ ~ev.close.ret
    /\ ev.close.n = MaxRetries
    /\ ev.mon.reason = "TRAIL"
    /\ trailing[ev.id].tp1_hit
    /\ signals[ev.id].position_status = OPEN

\* C24: in a cycle that evaluates the exit conditions and leaves the
\* trailing state in place: a cycle stopped by sl or tp2 leaves the state as
\* it was; a cycle that reaches the trailing logic unarmed arms exactly when
\* tp1 is reached, with peak (buy) or low (sell) equal to the price of the
\* cycle and without a trailing exit; a cycle that reaches it armed stays
\* armed, whatever the price, with peak = max(peak, price) or
\* low = min(low, price).  While the state exists it never goes from armed
\* to unarmed, the peak never decreases and the low never increases.
C24_TrailingMonotonic ==
    /\ [](LET b == ev.mon.before
              a == ev.mon.after
              p == ev.mon.price
              d == signals[ev.id].signal_data
              buy == d.signal_message = "buy"
              trailLogic == IF buy THEN d.sl < p /\ p < d.tp2
                            ELSE d.tp2 < p /\ p < d.sl
              reached == IF buy THEN p >= d.tp1 ELSE p <= d.tp1
          IN  (ev.op = "tick" /\ ev.mon.decided /\ ~(ev.close.called /\ ev.close.ret)) =>
                 /\ a.has /\ trailing[ev.id] = a
                 /\ ~trailLogic =>
                       (a.tp1_hit = b.tp1_hit /\ a.peak = b.peak /\ a.low = b.low)
                 /\ (trailLogic /\ ~b.tp1_hit) =>
                       /\ a.tp1_hit = reached
                       /\ reached =>
                             /\ IF buy THEN a.peak = p ELSE a.low = p
                             /\ ev.mon.priceReason # "TRAIL"
                       /\ ~reached => (a.peak = b.peak /\ a.low = b.low)
                 /\ (trailLogic /\ b.tp1_hit) =>
                       /\ a.tp1_hit
                       /\ IF buy
                          THEN a.peak = (IF p > b.peak THEN p ELSE b.peak)
                          ELSE a.low = (IF p < b.low THEN p ELSE b.low))
    /\ [][\A i \in 1..NumSignals :
             (trailing[i].has /\ trailing'[i].has) =>
                 /\ trailing[i].tp1_hit => trailing'[i].tp1_hit
                 /\ trailing'[i].peak >= trailing[i].peak
                 /\ trailing[i].low # 0 =>
                       (trailing'[i].low # 0 /\ trailing'[i].low <= trailing[i].low)]_vars

\* a buy armed at 111.0 whose peak rose to 120.0 and whose price then fell
\* back below tp1 while the close failed: still armed, peak kept
C24_Witness ==
    /\ ev.op = "tick"
    /\ ev.mon.decided
    /\ signals[ev.id].signal_data = SignalDataOf("buy")
    /\ ev.mon.before.tp1_hit
    /\ ev.mon.before.peak = 1200
    /\ ev.mon.price = 1080
    /\ ev.close.called /\ ~ev.close.ret
    /\ trailing[ev.id].tp1_hit
    /\ trailing[ev.id].peak = 1200

\* C27: when the store query for the open signals of the asset fails while
\* a pending signal is promoted, the conflict check answers 'reject': no
\* order is placed and nothing changes in that step.
C27_QueryFailureRejects ==
    (ev.op = "pend" /\ ~ev.query_ok) =>
        /\ ev.conflict = "reject"
        /\ ~ev.open.called
        /\ ev.placed = 0
        /\ ~ev.changed

\* C29: in every reachable state the store holds at most one open signal
\* per asset.
C29_OneOpenPerAsset ==
    \A a \in Assets :
        Cardinality({i \in 1..Len(signals) :
                        signals[i].asset = a /\ signals[i].position_status = OPEN}) <= 1

\* C25: a pending signal handled while the store holds an open signal of
\* its asset in its direction is rejected, no opening order is sent for it
\* and it stays pending; handled while the store holds no open signal of
\* its asset, it meets no conflict and, when its opening order is filled,
\* it is open after the step.
C25_HeldWhileSameOpenThenPromoted ==
    /\ (ev.op = "pend" /\ ev.same) =>
          /\ ev.conflict = "reject"
          /\ ~ev.open.called
          /\ signals[ev.id].position_status = FALSE_
    /\ (ev.op = "pend" /\ ~ev.same /\ ~ev.opp) =>
          /\ ev.conflict = "none"
          /\ ~ev.close.called
          /\ ev.open.filled => signals[ev.id].position_status = OPEN

\* C25 with every conflict query answered and at most one open signal of
\* the asset: the first half holds, the second fails when the store write
\* after the fill fails
C25_FirstHalfGivenQueryAndOneOpen ==
    (ev.op = "pend" /\ ev.same /\ ~ev.opp /\ ev.query_ok) =>
        /\ ev.conflict = "reject"
        /\ ~ev.open.called
        /\ signals[ev.id].position_status = FALSE_

C28_OnlyStatusAndDetailsOfAddressed ==
    [][/\ Len(signals') >= Len(signals)
       /\ \A i \in 1..Len(signals) :
             /\ signals'[i].signal_data = signals[i].signal_data
             /\ signals'[i].asset = signals[i].asset
             /\ signals'[i] # signals[i] =>
                   /\ \E k \in 1..Len(ev'.writes) :
                         /\ ev'.writes[k].id = i
                         /\ ev'.writes[k].to = signals'[i].position_status
                   /\ ev'.op \in {"pend", "mon", "sync"}
                   /\ ev'.op = "mon" => i = ev'.id
                   /\ ev'.op = "pend" =>
                         i = ev'.id \/ (ev'.close.called /\ i = ev'.close.id)]_vars

\* C28 happens: the monitor closed one signal while the store held another
C28_Witness ==
    /\ ev.op = "mon"
    /\ Len(signals) = 2
    /\ ev.writes = <<[id |-> ev.id, from |-> OPEN, to |-> CLOSE]>>
    /\ signals[ev.id].position_status = CLOSE
    /\ signals[3 - ev.id].position_status # CLOSE

\* C30: at most one opening order is filled for a signal.  With a single
\* signal in the store, whose fills are the only trades on the exchange:
\* after a step that filled its opening order, the position of its asset
\* is that one fill, also when the store write after an earlier fill failed.
C30_OneFillPerSignal ==
    (Len(signals) = 1 /\ ev.op = "pend" /\ ev.open.filled) =>
        Abs(pos[signals[1].asset].szi) = ev.open.fill.totalSz

\* C31: after a step in which PositionManager.close_position returned
\* success for a signal, the store records that signal as closed.
C31_SuccessMeansStoredClosed ==
    (ev.close.called /\ ev.close.ret) =>
        signals[ev.close.id].position_status = CLOSE

\* C32: in every reachable state every closed signal has position details
\* with an exit price (the exit timestamp is written with it).
C32_ClosedHasExit ==
    \A i \in 1..Len(signals) :
        signals[i].position_status = CLOSE =>
            /\ signals[i].position_details.has
            /\ signals[i].position_details.exit # 0

\* C33: in every reachable state every open signal has position details
\* with an order id, an entry price and a position size (the entry
\* timestamp is written with them), and every pending signal has none.
C33_OpenHasDetailsPendingHasNone ==
    \A i \in 1..Len(signals) :
        /\ signals[i].position_status = OPEN =>
              /\ signals[i].position_details.has
              /\ signals[i].position_details.oid # ""
              /\ signals[i].position_details.entry > 0
              /\ signals[i].position_details.size > 0
              /\ signals[i].position_details.usd =
                    signals[i].position_details.size * signals[i].position_details.entry
        /\ signals[i].position_status = FALSE_ =>
              signals[i].position_details = NoDetails

\* C33 happens: the store holds an open signal beside a pending one whose
\* opening order was filled and whose store write failed
C33_Witness ==
    /\ ev.op = "pend"
    /\ ev.open.filled
    /\ ~ev.open.ret
    /\ signals[ev.id].position_status = FALSE_
    /\ \E j \in 1..Len(signals) : signals[j].position_status = OPEN

\* C34: no step changes the exit price recorded for a signal that is closed
\* (the exit timestamp is written with the exit price).
C34_ExitWrittenOnce ==
    [][\A i \in 1..Len(signals) :
          signals[i].position_status = CLOSE =>
              /\ signals'[i].position_status = CLOSE
              /\ signals'[i].position_details.exit =
                    signals[i].position_details.exit]_vars

\* C35: in every reachable state at most one thread of _monitoring_loop is
\* running, whatever calls of start_monitoring and stop_monitoring were
\* made and however they interleave.
C35_OneMonitoringThread ==
    Cardinality({t \in 1..Len(monitor.threads) : IsAlive(monitor.threads, t)}) <= 1

\* C35 for calls made one after the other whose joins did not time out:
\* then a second thread never runs beside the first
C35_OneThreadWhenCallsInTurn ==
    (/\ ~monitor.overlapped
     /\ \A k \in 1..Len(monitor.calls) : ~monitor.calls[k].timed_out)
    => C35_OneMonitoringThread

\* C8: calculate_position_size never returns a size below the minimum order
\* size (one lot), whatever the account value, price, percentage and the
\* outcome of the balance query; when the percentage-and-leverage based size
\* is below the minimum the result is minimum x 1.1 rounded to the asset's
\* size precision.
C8_NeverBelowMin ==
    calc.done =>
        LET size == calc.res.size
            naiveBelow == /\ calc.vault.ok
                          /\ calc.price # 0
                          /\ calc.vault.total * calc.percentage * Leverage
                                * LotsPerUnit(calc.spec) < 10 * calc.price
        IN  /\ size.num >= size.den
            /\ naiveBelow =>
                  IF calc.spec.known THEN size.num = size.den
                  ELSE 10 * size.num = 11 * size.den


\* C4: in an evaluation with a price and a live position the price-based
\* decision follows SL > TP2 > trailing, for both directions and any
\* trailing state: when the stop-loss condition holds the reason is SL;
\* else when the tp2 condition holds the reason is TP2; in both cases the
\* trailing state is neither armed nor updated (it is dropped when the
\* close succeeds); only otherwise is the trailing logic reached; a
\* price-based exit decision leads to a call of close_position.
C4_ExitPriority ==
    (ev.op = "tick" /\ ev.mon.decided) =>
        LET d == signals[1].signal_data
            p == ev.mon.price
            buy == d.signal_message = "buy"
            slc == IF buy THEN p <= d.sl ELSE p >= d.sl
            tpc == IF buy THEN p >= d.tp2 ELSE p <= d.tp2
            b == IF ev.mon.before.has THEN ev.mon.before
                 ELSE [has |-> TRUE, tp1_hit |-> FALSE, peak |-> 0, low |-> 0]
            kept == ev.mon.after = (IF ev.close.ret THEN NoState ELSE b)
        IN  /\ slc => (ev.mon.priceReason = "SL" /\ kept)
            /\ (~slc /\ tpc) => (ev.mon.priceReason = "TP2" /\ kept)
            /\ (~slc /\ ~tpc) => ev.mon.priceReason \in {"", "TRAIL"}
            /\ ev.mon.priceReason # "" => ev.close.called

\* a signal with armed trailing whose price reaches tp2: closed for TP2
C4_Witness ==
    /\ ev.op = "tick"
    /\ ev.mon.decided
    /\ ev.mon.before.tp1_hit
    /\ ev.mon.priceReason = "TP2"
    /\ ev.mon.reason = "TP2"
    /\ ev.close.ret
    /\ signals[1].position_status = CLOSE

\* C5 (as the code has it): every evaluation of an open signal past its
\* max_exit_time that gets a price and finds a live position calls
\* close_position with the time reason, whatever the price, the trailing
\* state and the TP/SL conditions are; the stored status is close at the end
\* of the cycle exactly when that call succeeds.  When the exchange shows no
\* live position the signal is closed in the store directly, if the write
\* succeeds, and no order is placed.
C5_ExpiredRequestsClose ==
    (ev.op = "tick" /\ ev.mon.expired /\ ev.mon.price # 0) =>
        IF ev.mon.seen = "live"
        THEN /\ ev.mon.should_close
             /\ ev.mon.reason = "TIME"
             /\ ev.close.called
             /\ ev.close.id = 1
             /\ (signals[1].position_status = CLOSE) = ev.close.ret
        ELSE /\ ~ev.close.called
             /\ ev.placed = 0
             /\ (signals[1].position_status = CLOSE) = (ev.writes # <<>>)

\* an expired signal with armed trailing and no price condition, closed
C5_Witness ==
    /\ ev.op = "tick"
    /\ ev.mon.expired
    /\ ev.mon.seen = "live"
    /\ ev.mon.before.tp1_hit
    /\ ev.mon.priceReason = ""
    /\ ev.mon.reason = "TIME"
    /\ ev.close.ret
    /\ signals[1].position_status = CLOSE

\* C5 (as stated): the evaluation of an open signal past its max_exit_time
\* always leaves it closed in the store.
C5_ExpiredAlwaysClosed ==
    (ev.op = "tick" /\ ev.mon.expired) => signals[1].position_status = CLOSE


\* C3 (as the code has it): for an open signal with a live position,
\* evaluated once per cycle over prices strictly between sl and tp2 and
\* before expiry, close_position is called in exactly the cycles after the
\* arming cycle (the first that reaches tp1) whose price is at or below
\* peak * (1 - trail_percent), the peak being the highest price from the
\* arming cycle on (for a sell: at or above trough * (1 + trail_percent));
\* so the first call is at the first such cycle and none is earlier.  A call
\* that succeeds is the last one: the signal is closed.  A call that fails
\* leaves the signal open, and every later cycle that meets the condition
\* calls close_position again.
C3_TrailingCloseAtTrigger ==
    LET h == hist
        n == Len(h)
        d == signals[1].signal_data
        buy == d.signal_message = "buy"
        calm == \A i \in 1..n :
                   /\ h[i].live /\ ~h[i].exp
                   /\ IF buy THEN d.sl < h[i].p /\ h[i].p < d.tp2
                      ELSE d.tp2 < h[i].p /\ h[i].p < d.sl
        reached(i) == IF buy THEN h[i].p >= d.tp1 ELSE h[i].p <= d.tp1
        arm == IF \E i \in 1..n : reached(i)
               THEN CHOOSE i \in 1..n : reached(i) /\ \A j \in 1..(i - 1) : ~reached(j)
               ELSE 0
        best(i) == CHOOSE q \in {h[j].p : j \in arm..i} :
                      \A j \in arm..i : IF buy THEN q >= h[j].p ELSE q <= h[j].p
        trig(i) == /\ arm # 0
                   /\ i > arm
                   /\ IF buy THEN h[i].p * 100 <= best(i) * 98
                      ELSE h[i].p * 100 >= best(i) * 102
    IN  calm =>
           /\ \A i \in 1..n : h[i].req = trig(i)
           /\ \A i \in 1..n : h[i].ok =>
                 (h[i].req /\ i = n /\ signals[1].position_status = CLOSE)
           /\ \A i \in 1..n : (h[i].req /\ ~h[i].ok /\ i = n) =>
                 signals[1].position_status = OPEN

\* the worked example: 100, 108, 111, 120, 117.5 closes at the fifth cycle
C3_Witness ==
    /\ Len(hist) = 5
    /\ signals[1].signal_data = [signal_message |-> "buy", tp1 |-> 1100,
                                 tp2 |-> 1300, sl |-> 900]
    /\ [i \in 1..5 |-> hist[i].p] = <<1000, 1080, 1110, 1200, 1175>>
    /\ \A i \in 1..5 : hist[i].live /\ ~hist[i].exp
    /\ \A i \in 1..4 : ~hist[i].req
    /\ hist[5].req
    /\ hist[5].ok
    /\ signals[1].position_status = CLOSE

\* C3 (as stated): over such a price sequence close_position is called
\* exactly once, at the first cycle after arming whose price is at or below
\* peak * (1 - trail_percent), and in no other cycle.
C3_ExactlyOneClose ==
    LET h == hist
        n == Len(h)
        d == signals[1].signal_data
        buy == d.signal_message = "buy"
        reached(i) == IF buy THEN h[i].p >= d.tp1 ELSE h[i].p <= d.tp1
        arm == IF \E i \in 1..n : reached(i)
               THEN CHOOSE i \in 1..n : reached(i) /\ \A j \in 1..(i - 1) : ~reached(j)
               ELSE 0
        best(i) == CHOOSE q \in {h[j].p : j \in arm..i} :
                      \A j \in arm..i : IF buy THEN q >= h[j].p ELSE q <= h[j].p
        trig(i) == /\ arm # 0
                   /\ i > arm
                   /\ IF buy THEN h[i].p * 100 <= best(i) * 98
                      ELSE h[i].p * 100 >= best(i) * 102
        first == CHOOSE i \in 1..n : trig(i) /\ \A j \in 1..(i - 1) : ~trig(j)
    IN  {i \in 1..n : h[i].req} =
           (IF \E i \in 1..n : trig(i) THEN {first} ELSE {})


\* C1: every status write of every step moves a signal from 'false' to
\* 'open' or from 'open' to 'close'; no step writes the status of a signal
\* that is already closed, or moves one in any other way.
C1_OnlyForwardTransitions ==
    \A i \in 1..Len(ev.writes) :
        \/ ev.writes[i].from = FALSE_ /\ ev.writes[i].to = OPEN
        \/ ev.writes[i].from = OPEN /\ ev.writes[i].to = CLOSE

\* C2: a call of PositionManager.close_position that finds no exchange
\* entry for the asset, or an entry of size zero, returns success, leaves
\* the signal closed in the store and places no order.
C2_CloseWithoutPositionSucceeds ==
    (ev.close.called /\ ev.close.seen \in {"none", "zero"}) =>
        /\ ev.close.ret
        /\ signals[ev.close.id].position_status = CLOSE
        /\ ev.close.n = 0

\* C6: promoting a pending signal while the store holds an open signal for
\* the same asset in the same direction places no order and changes no
\* signal, position or trailing state.
C6_SameDirectionRejected ==
    (ev.op = "pend" /\ ev.same) =>
        /\ ev.placed = 0
        /\ ev.writes = <<>>
        /\ ~ev.changed
        /\ signals[ev.id].position_status = FALSE_

\* C7: when a pending signal is promoted while the store holds an open
\* signal for the same asset in the opposite direction and the new signal
\* becomes open, the existing signal went from open to close before the new
\* one went from 'false' to open, and no opposite signal is still open.
C7_ReversalClosesFirst ==
    (ev.op = "pend" /\ ev.opp /\ signals[ev.id].position_status = OPEN) =>
        /\ Len(ev.writes) = 2
        /\ ev.writes[1].id # ev.id
        /\ ev.writes[1].from = OPEN
        /\ ev.writes[1].to = CLOSE
        /\ ev.writes[2] = [id |-> ev.id, from |-> FALSE_, to |-> OPEN]
        /\ ~HoldsOpen(signals, ev.id, FALSE)

\* C10: after a reconciliation every signal that was open in the store and
\* whose asset has no live exchange position is closed in the store, and
\* closed_in_db equals the number of signals the run moved to close.
C10_SyncClosesAndCounts ==
    ev.op = "sync" =>
        /\ ev.sync.left = 0
        /\ ev.sync.closed_in_db = ev.sync.moved


====
